---- MODULE Spec2Model ----
(***************************************************************************)
(* A model of teejays/rustful: the RestServer of src/src/rest_server.rs    *)
(* (construction, path registration, the accept loop of listen() and the   *)
(* steps of handle_connection) driven by a caller such as src/src/main.rs. *)
(* Texts are TLA+ strings; a stream is the text a client sends plus the    *)
(* way it ends (end of stream, a read fault, or a client that stalls).     *)
(***************************************************************************)
EXTENDS Integers, Sequences, FiniteSets, TLC

VARIABLES
    pc,          \* position of the program: init, setup, accepting, reading, parsing, dispatch, writing, panicked
    server,      \* the RestServer value (name, addr, port, path_handler_map)
    call,        \* the last call made on the public API with its arguments
    result,      \* what that call returned
    bound,       \* the address the TcpListener is bound to, "" when there is none
    incoming,    \* number of items listener.incoming() has yielded
    accepted,    \* number of those that were streams (Ok)
    stream,      \* the current connection: unread text and how the stream ends
    lines,       \* http_request: the lines collected so far
    read_err,    \* the Err an item of lines() carried, if one did
    req,         \* the HttpRequest built for the current connection
    invoked,     \* the handlers invoked for the current connection
    resp,        \* what the handler returned
    response,    \* the response buffer
    written,     \* the bytes of the response that reached the stream
    writes,      \* number of write_all calls made on the stream
    hc_result,   \* what handle_connection returned
    log          \* the lines listen() printed about failures

vars == <<pc, server, call, result, bound, incoming, accepted, stream, lines,
          read_err, req, invoked, resp, response, written, writes, hc_result, log>>

connVars == <<stream, lines, read_err, req, invoked, resp, response, written, writes, hc_result>>

-----------------------------------------------------------------------------
(* Bounds *)

MaxIncoming == 2

-----------------------------------------------------------------------------
(* Results and errors (std::io::Error: a kind and a message) *)

NoErr == [kind |-> "none", msg |-> ""]
IoError(kind, msg) == [kind |-> kind, msg |-> msg]
Display(err) == err.msg

NoResult == [st |-> "none", err |-> NoErr, at |-> "none"]
OkResult == [st |-> "ok", err |-> NoErr, at |-> "none"]
ErrResult(e, where) == [st |-> "err", err |-> e, at |-> where]

-----------------------------------------------------------------------------
(* Text helpers *)

Char(s, i) == SubSeq(s, i, i)
Drop(s, n) == SubSeq(s, n + 1, Len(s))
Take(s, n) == SubSeq(s, 1, n)
HasPrefixAt(s, i, p) == i + Len(p) - 1 <= Len(s) /\ SubSeq(s, i, i + Len(p) - 1) = p
Contains(s, p) == \E i \in 1..(Len(s) + 1) : HasPrefixAt(s, i, p)
EndsWith(s, p) == Len(p) <= Len(s) /\ HasPrefixAt(s, Len(s) - Len(p) + 1, p)

\* the whitespace class \s of the regex crate, over the characters used here
IsSpace(c) == c \in {" ", "\t", "\n", "\r", "\f"}

-----------------------------------------------------------------------------
(* HttpMethod and its Display *)

HttpMethodDisplay(m) == "[" \o m \o "]"

-----------------------------------------------------------------------------
\* HTTP_REGEX_PATTERN: one of GET|POST|OPTION|PUT|DELETE, one \s, a "/"
\* followed by any number of \S, one \s, one or more \S, end of text.
\* Regex::captures searches the line for the leftmost match; the pattern
\* has no anchor at the start.

MethodAlternatives == <<"GET", "POST", "OPTION", "PUT", "DELETE">>

NoCaptures == [found |-> FALSE, method |-> "", path |-> "", protocol |-> "", len |-> 0]

\* k is the last character of group 2 when the method ends right before j:
\* \s at j, "/" at j+1, non-space up to k, \s at k+1, non-space to the end
PathEndOk(line, j, k) ==
    /\ j + 1 <= k
    /\ k + 2 <= Len(line)
    /\ IsSpace(Char(line, j))
    /\ Char(line, j + 1) = "/"
    /\ \A m \in (j + 2)..k : ~IsSpace(Char(line, m))
    /\ IsSpace(Char(line, k + 1))
    /\ \A m \in (k + 2)..Len(line) : ~IsSpace(Char(line, m))

\* the alternatives that make the whole pattern match at start i
AltsAt(line, i) ==
    {a \in 1..Len(MethodAlternatives) :
        /\ HasPrefixAt(line, i, MethodAlternatives[a])
        /\ \E k \in 1..Len(line) : PathEndOk(line, i + Len(MethodAlternatives[a]), k)}

MatchStarts(line) == {i \in 1..Len(line) : AltsAt(line, i) # {}}

Min(S) == CHOOSE x \in S : \A y \in S : x <= y
Max(S) == CHOOSE x \in S : \A y \in S : x >= y

RegexCaptures(line) ==
    IF MatchStarts(line) = {} THEN NoCaptures
    ELSE LET i == Min(MatchStarts(line))
             a == Min(AltsAt(line, i))
             j == i + Len(MethodAlternatives[a])
             k == Max({e \in 1..Len(line) : PathEndOk(line, j, e)})
         IN [found |-> TRUE,
             method |-> MethodAlternatives[a],
             path |-> SubSeq(line, j + 1, k),
             protocol |-> SubSeq(line, k + 2, Len(line)),
             len |-> 4]

\* {:#?} of the captures, abbreviated to the four captured texts
CapturesDebug(line, cs) ==
    "Captures(" \o cs.method \o ", " \o cs.path \o ", " \o cs.protocol \o ")"

-----------------------------------------------------------------------------
(* Handlers: handle_ping of the source and two more a caller may register  *)

Handlers == {"handle_ping", "handle_method", "handle_fail"}

NoResp == [st |-> "none", payload |-> "", err |-> NoErr]
RespOk(v) == [st |-> "ok", payload |-> v, err |-> NoErr]
RespErr(e) == [st |-> "err", payload |-> "", err |-> e]

handle_ping(r) == RespOk("pong")

HandlerCall(h, r) ==
    CASE h = "handle_ping" -> handle_ping(r)
      [] h = "handle_method" -> RespOk(HttpMethodDisplay(r.method))
      [] OTHER -> RespErr(IoError("Other", "handler failed"))

\* {:#?} of a Box<dyn Any>: the Debug of dyn Any prints no content
DebugAny(v) == "Any { .. }"

RespStr(r) ==
    IF r.st = "ok" THEN DebugAny(r.payload)
    ELSE "error: " \o Display(r.err)

StatusLine == "HTTP/1.1 200 OK"

\* a response whose status follows the handler's outcome
ResponseText_by_outcome(resp_str) ==
    (IF HasPrefixAt(resp_str, 1, "error: ")
     THEN "HTTP/1.1 500 Internal Server Error" ELSE StatusLine)
        \o "\n" \o resp_str \o "\r\n\r\n"

ResponseText(resp_str) == StatusLine \o "\n" \o resp_str \o "\r\n\r\n"

-----------------------------------------------------------------------------
(* BufRead::lines over the stream: split at "\n", drop the "\n" and a "\r" *)
(* right before it; a last line without "\n" is yielded at end of stream.  *)

NewlineAt(data) == {i \in 1..Len(data) : Char(data, i) = "\n"}

\* a split that drops the "\n" only
StripLineEnd_keep_cr(raw) ==
    IF EndsWith(raw, "\n") THEN Take(raw, Len(raw) - 1) ELSE raw

StripLineEnd(raw) ==
    IF EndsWith(raw, "\r\n") THEN Take(raw, Len(raw) - 2)
    ELSE IF EndsWith(raw, "\n") THEN Take(raw, Len(raw) - 1)
    ELSE raw

\* the text of the stream that has not been read yet
Unread(st) == Drop(st.data, st.pos)

\* a read with a timeout: a client that stalls is treated as the end of the stream
NextItem_timeout(st) ==
    IF NewlineAt(Unread(st)) # {}
    THEN LET n == Min(NewlineAt(Unread(st)))
         IN [t |-> "line", s |-> StripLineEnd(Take(Unread(st), n)),
             pos |-> st.pos + n, err |-> NoErr]
    ELSE IF st.ending \in {"eof", "stall"}
    THEN IF Unread(st) # ""
         THEN [t |-> "line", s |-> Unread(st), pos |-> Len(st.data), err |-> NoErr]
         ELSE [t |-> "end", s |-> "", pos |-> st.pos, err |-> NoErr]
    ELSE [t |-> "fault", s |-> "", pos |-> Len(st.data),
          err |-> IoError(st.ending, "read failed: " \o st.ending)]

\* what the next call of the lines() iterator yields: a line, the end of the
\* iteration, a read fault, or nothing yet (the read blocks)
NextItem(st) ==
    IF NewlineAt(Unread(st)) # {}
    THEN LET n == Min(NewlineAt(Unread(st)))
         IN [t |-> "line", s |-> StripLineEnd(Take(Unread(st), n)),
             pos |-> st.pos + n, err |-> NoErr]
    ELSE IF st.ending = "eof"
    THEN IF Unread(st) # ""
         THEN [t |-> "line", s |-> Unread(st), pos |-> Len(st.data), err |-> NoErr]
         ELSE [t |-> "end", s |-> "", pos |-> st.pos, err |-> NoErr]
    ELSE IF st.ending = "stall"
    THEN [t |-> "blocked", s |-> "", pos |-> st.pos, err |-> NoErr]
    ELSE [t |-> "fault", s |-> "", pos |-> Len(st.data),
          err |-> IoError(st.ending, "read failed: " \o st.ending)]

-----------------------------------------------------------------------------
(* Inputs *)

MainName == "sample-server"
MainAddr == "127.0.0.1"
MainPort == 8080

Names == {"", MainName, "s"}
Addrs == {MainAddr, "0.0.0.0"}
Ports == {MainPort, 0, 65535}

Paths == {"/ping", "/ping/"}

\* how a stream can end once its text is read: the client closes it, the
\* read fails (reset by the peer, bytes that are not UTF-8), or the client
\* sends nothing more and keeps the stream open
ReadFaults == {"ConnectionReset", "InvalidData"}
Endings == {"eof", "stall"} \cup ReadFaults

BindFaults == {"AddrInUse", "AddrNotAvailable"}
AcceptFaults == {"ConnectionAborted"}
WriteFaults == {"BrokenPipe"}

RequestLines ==
    { "GET /ping HTTP/1.1", "POST /ping HTTP/1.1", "GET /ping/ HTTP/1.1",
      "GET /ping?q=1 HTTP/1.1", "GET /missing HTTP/1.1",
      "DELETE /ping HTTP/1.1", "PUT /ping HTTP/1.1", "OPTION /ping HTTP/1.1",
      "DELETE /x HTTP/1.1",
      "GET /ping FTP", "DELETE /ping FTP", "GET /missing FTP",
      "get /ping HTTP/1.1", "GET  /ping HTTP/1.1", "GET\t/ping\tHTTP/1.1",
      "XGET /ping HTTP/1.1", "GET /ping HTTP/1.1 ", "GET ping HTTP/1.1",
      "GET /ping", "PUT /x GET /ping HTTP/1.1", "hello" }

Streams ==
    {[data |-> l \o "\r\n\r\n", ending |-> "eof", pos |-> 0] : l \in RequestLines}
    \cup
    {[data |-> d, ending |-> "eof", pos |-> 0] :
        d \in { "", "\r\n", "\n", "\r\nGET /ping HTTP/1.1\r\n\r\n",
                "GET /ping HTTP/1.1", "GET /ping HTTP/1.1\n\n",
                "GET /ping HTTP/1.1\r\n",
                "GET /ping HTTP/1.1\r\nHost: a\r\n\r\n",
                "GET /ping HTTP/1.1\r\nDELETE /ping FTP\r\n\r\n",
                "GET /ping HTTP/1.1\r\n\r\nbody",
                "DELETE /ping HTTP/1.1\r\nHost: a\r\n\r\n" }}
    \cup
    {[data |-> d, ending |-> e, pos |-> 0] :
        d \in { "", "GET /pi", "GET /ping HTTP/1.1\r\n",
                "GET /ping HTTP/1.1\r\n\r\n" },
        e \in Endings \ {"eof"}}

-----------------------------------------------------------------------------
(* The caller: RestServer::new and register_path *)

NoServer == [name |-> "", addr |-> "", port |-> 0, path_handler_map |-> <<>>]

NoCall == [op |-> "none", name |-> "", addr |-> "", port |-> 0, path |-> "", func |-> ""]

\* new without the check of the name
RestServer_new_unchecked(name, addr, port) ==
    [res |-> OkResult,
     srv |-> [name |-> name, addr |-> addr, port |-> port,
              path_handler_map |-> <<>>]]

RestServer_new(name, addr, port) ==
    IF name = ""
    THEN [res |-> ErrResult(IoError("InvalidInput",
                     "RestServer: cannot create a new server with empty name"), "new"),
          srv |-> NoServer]
    ELSE [res |-> OkResult,
          srv |-> [name |-> name, addr |-> addr, port |-> port,
                   path_handler_map |-> <<>>]]

Insert(map, path, func) ==
    [q \in (DOMAIN map) \cup {path} |-> IF q = path THEN func ELSE map[q]]

\* register_path without the contains_key check: the insert replaces the entry
register_path_overwrite(srv, path, func) ==
    [res |-> OkResult,
     srv |-> [srv EXCEPT !.path_handler_map = Insert(@, path, func)]]

register_path(srv, path, func) ==
    IF path \in DOMAIN srv.path_handler_map
    THEN [res |-> ErrResult(IoError("Other",
                     "HttpServer [" \o srv.name \o "] path [" \o path
                         \o "]: attempted to set handler twice"), "register_path"),
          srv |-> srv]
    ELSE [res |-> OkResult,
          srv |-> [srv EXCEPT !.path_handler_map = Insert(@, path, func)]]

New(names, addrs, ports) ==
    /\ pc = "init"
    /\ \E name \in names, addr \in addrs, port \in ports :
          LET r == RestServer_new(name, addr, port)
          IN /\ call' = [NoCall EXCEPT !.op = "new", !.name = name,
                                       !.addr = addr, !.port = port]
             /\ result' = r.res
             /\ server' = r.srv
             /\ pc' = IF r.res.st = "ok" THEN "setup" ELSE "init"
    /\ UNCHANGED <<bound, incoming, accepted, log>>
    /\ UNCHANGED connVars

RegisterPath ==
    /\ pc = "setup"
    /\ \E path \in Paths, func \in Handlers :
          LET r == register_path(server, path, func)
          IN /\ call' = [NoCall EXCEPT !.op = "register_path",
                                       !.path = path, !.func = func]
             /\ result' = r.res
             /\ server' = r.srv
    /\ UNCHANGED <<pc, bound, incoming, accepted, log>>
    /\ UNCHANGED connVars

-----------------------------------------------------------------------------
(* RestServer::listen: the bind, then the loop over listener.incoming(),   *)
(* an iterator that never ends, so the code after the loop is never run.   *)

FullAddr(srv) == srv.addr \o ":" \o ToString(srv.port)

NoStream == [data |-> "", ending |-> "eof", pos |-> 0]

NoReq == [method |-> "", path |-> "", headers |-> <<>>, body |-> ""]

\* a request buffer that outlives the connection: the lines are not cleared
ConnReset_keeps_lines ==
    /\ lines' = lines
    /\ read_err' = NoErr
    /\ req' = NoReq
    /\ invoked' = <<>>
    /\ resp' = NoResp
    /\ response' = ""
    /\ written' = ""
    /\ writes' = 0
    /\ hc_result' = NoResult

ConnReset ==
    /\ lines' = <<>>
    /\ read_err' = NoErr
    /\ req' = NoReq
    /\ invoked' = <<>>
    /\ resp' = NoResp
    /\ response' = ""
    /\ written' = ""
    /\ writes' = 0
    /\ hc_result' = NoResult

\* TcpListener::bind(full_addr)? succeeds: listen enters its loop
ListenBind ==
    /\ pc = "setup"
    /\ call' = [NoCall EXCEPT !.op = "listen"]
    /\ result' = NoResult
    /\ bound' = FullAddr(server)
    /\ pc' = "accepting"
    /\ UNCHANGED <<server, incoming, accepted, log>>
    /\ UNCHANGED connVars

\* TcpListener::bind(full_addr)? fails: listen returns the error
ListenBindFails ==
    /\ pc = "setup"
    /\ \E k \in BindFaults :
          result' = ErrResult(IoError(k, "bind " \o FullAddr(server) \o ": " \o k), "bind")
    /\ call' = [NoCall EXCEPT !.op = "listen"]
    /\ UNCHANGED <<pc, server, bound, incoming, accepted, log>>
    /\ UNCHANGED connVars

\* an accept that does not wait for the connection in hand to be read
AcceptStream_early ==
    /\ pc \in {"accepting", "reading"}
    /\ incoming < MaxIncoming
    /\ \E st \in Streams : stream' = st
    /\ ConnReset
    /\ incoming' = incoming + 1
    /\ accepted' = accepted + 1
    /\ pc' = "reading"
    /\ UNCHANGED <<server, call, result, bound, log>>

\* incoming() yields Ok(stream): handle_connection starts on it
AcceptStream ==
    /\ pc = "accepting"
    /\ incoming < MaxIncoming
    /\ \E st \in Streams : stream' = st
    /\ ConnReset
    /\ incoming' = incoming + 1
    /\ accepted' = accepted + 1
    /\ pc' = "reading"
    /\ UNCHANGED <<server, call, result, bound, log>>

\* an accept loop that gives up on Err(err): listen returns it
AcceptError_returns ==
    /\ pc = "accepting"
    /\ incoming < MaxIncoming
    /\ \E k \in AcceptFaults :
          result' = ErrResult(IoError(k, "accept failed: " \o k), "accept")
    /\ incoming' = incoming + 1
    /\ pc' = "setup"
    /\ bound' = ""
    /\ UNCHANGED <<server, call, accepted, log>>
    /\ UNCHANGED connVars

\* incoming() yields Err(err): it is printed and the loop goes on
AcceptError ==
    /\ pc = "accepting"
    /\ incoming < MaxIncoming
    /\ \E k \in AcceptFaults :
          log' = Append(log, "Error in connection: " \o Display(IoError(k, "accept failed: " \o k)))
    /\ incoming' = incoming + 1
    /\ UNCHANGED <<pc, server, call, result, bound, accepted>>
    /\ UNCHANGED connVars

-----------------------------------------------------------------------------
(* RestServer::handle_connection *)

\* handle_connection returns res to listen, which prints an Err and goes on
\* to the next item of incoming()
ReturnToListen(res) ==
    /\ hc_result' = res
    /\ log' = IF res.st = "err"
              THEN Append(log, "Error in handling connection: " \o Display(res.err))
              ELSE log
    /\ pc' = "accepting"

\* result.unwrap() on an item of lines(): the line, or a panic on Err
UnwrapLine(item) ==
    IF item.t = "fault" THEN [panic |-> TRUE, s |-> ""]
    ELSE [panic |-> FALSE, s |-> item.s]

\* a read that keeps only the line read last
ReadLine_keeps_last ==
    /\ pc = "reading"
    /\ LET item == NextItem(stream)
           u == UnwrapLine(item)
       IN /\ item.t # "blocked"
          /\ stream' = [stream EXCEPT !.pos = item.pos]
          /\ read_err' = item.err
          /\ IF item.t = "end"
             THEN pc' = "parsing" /\ lines' = lines
             ELSE IF u.panic
             THEN pc' = "panicked" /\ lines' = lines
             ELSE IF u.s = ""
             THEN pc' = "parsing" /\ lines' = lines
             ELSE pc' = "reading" /\ lines' = <<u.s>>
    /\ UNCHANGED <<server, call, result, bound, incoming, accepted, log>>
    /\ UNCHANGED <<req, invoked, resp, response, written, writes, hc_result>>

\* one step of lines().map(unwrap).take_while(non-empty).collect()
ReadLine ==
    /\ pc = "reading"
    /\ LET item == NextItem(stream)
           u == UnwrapLine(item)
       IN /\ item.t # "blocked"
          /\ stream' = [stream EXCEPT !.pos = item.pos]
          /\ read_err' = item.err
          /\ IF item.t = "end"
             THEN pc' = "parsing" /\ lines' = lines
             ELSE IF u.panic
             THEN pc' = "panicked" /\ lines' = lines
             ELSE IF u.s = ""
             THEN pc' = "parsing" /\ lines' = lines
             ELSE pc' = "reading" /\ lines' = Append(lines, u.s)
    /\ UNCHANGED <<server, call, result, bound, incoming, accepted, log>>
    /\ UNCHANGED <<req, invoked, resp, response, written, writes, hc_result>>

InvalidData(msg) == IoError("InvalidData", msg)

\* a method match that lets every method of the grammar through
ParseMethod_lenient(s) == [ok |-> TRUE, method |-> s]

\* the match on the method token: GET and POST are methods, the rest is not
ParseMethod(s) ==
    IF s = "GET" THEN [ok |-> TRUE, method |-> "GET"]
    ELSE IF s = "POST" THEN [ok |-> TRUE, method |-> "POST"]
    ELSE [ok |-> FALSE, method |-> ""]

\* a lookup that drops a trailing slash of the path first
MapGet_normalized(map, path) ==
    LET q == IF Len(path) > 1 /\ EndsWith(path, "/") THEN Take(path, Len(path) - 1)
             ELSE path
    IN IF q \in DOMAIN map THEN [some |-> TRUE, handler |-> map[q]]
       ELSE [some |-> FALSE, handler |-> ""]

\* path_handler_map.get(path)
MapGet(map, path) ==
    IF path \in DOMAIN map THEN [some |-> TRUE, handler |-> map[path]]
    ELSE [some |-> FALSE, handler |-> ""]

\* the checks with the lookup of the path made before the protocol check
ParseRequest_lookup_first(http_request, map) ==
    IF Len(http_request) < 1
    THEN [res |-> ErrResult(InvalidData("HTTP request is invalid"), "empty"),
          req |-> NoReq]
    ELSE LET cs == RegexCaptures(http_request[1]) IN
    IF ~cs.found
    THEN [res |-> ErrResult(InvalidData(
                     "HTTP request is invalid - no parts found in line: "
                         \o http_request[1]), "grammar"),
          req |-> NoReq]
    ELSE IF ~ParseMethod(cs.method).ok
    THEN [res |-> ErrResult(InvalidData(
                     "HTTP request is invalid: unexpected method: " \o cs.method),
                     "method"),
          req |-> NoReq]
    ELSE LET r == [method |-> ParseMethod(cs.method).method, path |-> cs.path,
                   headers |-> <<>>, body |-> "todo"] IN
    IF ~MapGet(map, cs.path).some
    THEN [res |-> ErrResult(InvalidData(
                     "HTTP request is invalid: No handler found for path " \o cs.path),
                     "lookup"),
          req |-> r]
    ELSE IF ~Contains(cs.protocol, "HTTP")
    THEN [res |-> ErrResult(InvalidData(
                     "HTTP request is invalid: expected protocol to be HTTP but got "
                         \o cs.protocol \o ": "
                         \o CapturesDebug(http_request[1], cs)), "protocol"),
          req |-> NoReq]
    ELSE [res |-> OkResult, req |-> r]

\* the checks between the read and the handler call; at names the return
\* statement taken
ParseRequest(http_request, map) ==
    IF Len(http_request) < 1
    THEN [res |-> ErrResult(InvalidData("HTTP request is invalid"), "empty"),
          req |-> NoReq]
    ELSE LET cs == RegexCaptures(http_request[1]) IN
    IF ~cs.found
    THEN [res |-> ErrResult(InvalidData(
                     "HTTP request is invalid - no parts found in line: "
                         \o http_request[1]), "grammar"),
          req |-> NoReq]
    ELSE IF cs.len # 4
    THEN [res |-> ErrResult(InvalidData(
                     "HTTP request is invalid: expected 4 parts but found "
                         \o ToString(cs.len) \o ": "
                         \o CapturesDebug(http_request[1], cs)), "groups"),
          req |-> NoReq]
    ELSE IF ~ParseMethod(cs.method).ok
    THEN [res |-> ErrResult(InvalidData(
                     "HTTP request is invalid: unexpected method: " \o cs.method),
                     "method"),
          req |-> NoReq]
    ELSE IF ~Contains(cs.protocol, "HTTP")
    THEN [res |-> ErrResult(InvalidData(
                     "HTTP request is invalid: expected protocol to be HTTP but got "
                         \o cs.protocol \o ": "
                         \o CapturesDebug(http_request[1], cs)), "protocol"),
          req |-> NoReq]
    ELSE LET r == [method |-> ParseMethod(cs.method).method, path |-> cs.path,
                   headers |-> <<>>, body |-> "todo"] IN
    IF ~MapGet(map, cs.path).some
    THEN [res |-> ErrResult(InvalidData(
                     "HTTP request is invalid: No handler found for path " \o cs.path),
                     "lookup"),
          req |-> r]
    ELSE [res |-> OkResult, req |-> r]

\* a handler of failures that answers the client before it returns the error
Parse_replies ==
    /\ pc = "parsing"
    /\ LET p == ParseRequest(lines, server.path_handler_map)
       IN /\ req' = p.req
          /\ IF p.res.st = "err"
             THEN /\ ReturnToListen(p.res)
                  /\ written' = "HTTP/1.1 400 Bad Request\r\n\r\n"
                  /\ writes' = writes + 1
             ELSE pc' = "dispatch" /\ UNCHANGED <<hc_result, log, written, writes>>
    /\ UNCHANGED <<server, call, result, bound, incoming, accepted>>
    /\ UNCHANGED <<stream, lines, read_err, invoked, resp, response>>

Parse ==
    /\ pc = "parsing"
    /\ LET p == ParseRequest(lines, server.path_handler_map)
       IN /\ req' = p.req
          /\ IF p.res.st = "err"
             THEN ReturnToListen(p.res)
             ELSE pc' = "dispatch" /\ UNCHANGED <<hc_result, log>>
    /\ UNCHANGED <<server, call, result, bound, incoming, accepted>>
    /\ UNCHANGED <<stream, lines, read_err, invoked, resp, response, written, writes>>

\* handler(http_request), then the response text
Invoke ==
    /\ pc = "dispatch"
    /\ LET h == MapGet(server.path_handler_map, req.path).handler
           r == HandlerCall(h, req)
       IN /\ invoked' = Append(invoked, h)
          /\ resp' = r
          /\ response' = ResponseText(RespStr(r))
    /\ pc' = "writing"
    /\ UNCHANGED <<server, call, result, bound, incoming, accepted, log>>
    /\ UNCHANGED <<stream, lines, read_err, req, written, writes, hc_result>>

\* the numbers of bytes a failing write_all may have sent before the fault
WriteFaultPoints(text) == {0, Len(StatusLine), Len(text) - 1}

\* stream.write_all(response)? succeeds
WriteOk ==
    /\ pc = "writing"
    /\ written' = written \o response
    /\ writes' = writes + 1
    /\ ReturnToListen(OkResult)
    /\ UNCHANGED <<server, call, result, bound, incoming, accepted>>
    /\ UNCHANGED <<stream, lines, read_err, req, invoked, resp, response>>

\* stream.write_all(response)? fails after n bytes
WriteFails ==
    /\ pc = "writing"
    /\ \E n \in WriteFaultPoints(response), k \in WriteFaults :
          /\ written' = written \o Take(response, n)
          /\ ReturnToListen(ErrResult(IoError(k, "write failed: " \o k), "write"))
    /\ writes' = writes + 1
    /\ UNCHANGED <<server, call, result, bound, incoming, accepted>>
    /\ UNCHANGED <<stream, lines, read_err, req, invoked, resp, response>>

-----------------------------------------------------------------------------
(* Specifications *)

Init ==
    /\ pc = "init"
    /\ server = NoServer
    /\ call = NoCall
    /\ result = NoResult
    /\ bound = ""
    /\ incoming = 0
    /\ accepted = 0
    /\ stream = NoStream
    /\ lines = <<>>
    /\ read_err = NoErr
    /\ req = NoReq
    /\ invoked = <<>>
    /\ resp = NoResp
    /\ response = ""
    /\ written = ""
    /\ writes = 0
    /\ hc_result = NoResult
    /\ log = <<>>

\* the server of main.rs, and the failing construction
NewMain == New({"", MainName}, {MainAddr}, {MainPort})

\* any configuration
NewAny == New(Names, Addrs, Ports)

Next ==
    \/ NewMain
    \/ RegisterPath
    \/ ListenBind
    \/ ListenBindFails
    \/ AcceptStream
    \/ AcceptError
    \/ ReadLine
    \/ Parse
    \/ Invoke
    \/ WriteOk
    \/ WriteFails

Spec == Init /\ [][Next]_vars

\* construction and registration alone, over every configuration
NextSetup ==
    \/ NewAny
    \/ RegisterPath

SpecSetup == Init /\ [][NextSetup]_vars

\* the streams of the runs checked for progress
LiveStreams ==
    {st \in Streams :
        st.data \in { "", "GET /pi", "GET /ping HTTP/1.1", "GET /ping HTTP/1.1\r\n",
                      "GET /ping HTTP/1.1\r\n\r\n", "DELETE /ping HTTP/1.1\r\n\r\n",
                      "GET /ping HTTP/1.1\r\nHost: a\r\n\r\n" }}

\* incoming() yields Ok(stream), for the streams of LiveStreams
AcceptLive ==
    /\ pc = "accepting"
    /\ incoming < MaxIncoming
    /\ \E st \in LiveStreams : stream' = st
    /\ ConnReset
    /\ incoming' = incoming + 1
    /\ accepted' = accepted + 1
    /\ pc' = "reading"
    /\ UNCHANGED <<server, call, result, bound, log>>

NextLive ==
    \/ NewMain
    \/ RegisterPath
    \/ ListenBind
    \/ ListenBindFails
    \/ AcceptLive
    \/ AcceptError
    \/ ReadLine
    \/ Parse
    \/ Invoke
    \/ WriteOk
    \/ WriteFails

\* the thread of listen() keeps running: a read returns once a line, the end
\* or a fault is there, accept returns once a connection is pending, and a
\* handler and a write return.  The parsing of lines 128-208 is pure
\* computation that ends: Parse is enabled exactly when pc = "parsing" and
\* every Parse step leaves "parsing", so that weak fairness of Parse is
\* []<>(pc # "parsing"), the form written here
SpecLive ==
    /\ Init
    /\ [][NextLive]_vars
    /\ WF_vars(AcceptLive \/ AcceptError)
    /\ WF_vars(ReadLine)
    /\ []<>(pc # "parsing")
    /\ WF_vars(Invoke)
    /\ WF_vars(WriteOk \/ WriteFails)

TypeOK ==
    /\ pc \in {"init", "setup", "accepting", "reading", "parsing", "dispatch",
               "writing", "panicked"}
    /\ incoming \in 0..MaxIncoming
    /\ accepted \in 0..incoming
    /\ writes \in 0..1

-----------------------------------------------------------------------------
(* Vocabulary of the properties *)

\* the spec's error kinds, as the code reports them
IsInvalidConfig(e) ==
    e.kind = "InvalidInput" /\ e.msg = "RestServer: cannot create a new server with empty name"
IsDuplicatePath(e) ==
    e.kind = "Other" /\ EndsWith(e.msg, "attempted to set handler twice")
IsNotFound(e) ==
    e.kind = "InvalidData" /\ HasPrefixAt(e.msg, 1, "HTTP request is invalid: No handler found for path ")
IsInvalidRequest(e) ==
    e.kind = "InvalidData" /\ HasPrefixAt(e.msg, 1, "HTTP request is invalid") /\ ~IsNotFound(e)

\* handling of the current connection has gone past the checks
Parsed == accepted > 0 /\ pc \in {"dispatch", "writing", "accepting"}
\* handling of the current connection has ended
Handled == accepted > 0 /\ pc = "accepting"

NothingSent == invoked = <<>> /\ written = "" /\ writes = 0

FirstLine == lines[1]
Tokens == RegexCaptures(FirstLine)
PassesGrammar == lines # <<>> /\ Tokens.found

\* the body of a response text: what lies between the status line with its
\* line feed and the final \r\n\r\n
BodyOf(text) == SubSeq(text, Len("HTTP/1.1 200 OK") + 2, Len(text) - 4)

-----------------------------------------------------------------------------
(* C1 *)
\* C1: no failure of one connection stops the accept loop: the program never
\* leaves the loop by a failure of handling, and every failed handling is
\* printed by listen(), which is then back at accepting.
C1_NoFailureStopsLoop ==
    /\ pc # "panicked"
    /\ (Handled /\ hc_result.st = "err") =>
          \E i \in 1..Len(log) :
              log[i] = "Error in handling connection: " \o hc_result.err.msg

(* C2 *)
\* C2: a read fault before the first empty line makes handle_connection return
\* that fault as its error, with no handler invoked and nothing written.
C2_ReadFaultReturned ==
    read_err # NoErr =>
        /\ hc_result.st = "err"
        /\ hc_result.err = read_err
        /\ NothingSent

(* C3 *)
\* C3: the handler's outcome round-trips into the body: a success payload v
\* appears in the body, an error with message m gives the body "error: " m.
C3_OutcomeRoundTrips ==
    (invoked # <<>> /\ pc \in {"writing", "accepting"}) =>
        /\ resp.st = "ok" => Contains(BodyOf(response), resp.payload)
        /\ resp.st = "err" => BodyOf(response) = "error: " \o resp.err.msg

(* C4 *)
\* C4: register_path(p, h) fails with DuplicatePath exactly when p is already
\* a key of the registry; a failed call leaves the server as it was, and a
\* successful one sets the entry for p to h and changes no other entry, so
\* an entry, once made, keeps the handler of its first registration.
C4_RegisterPathFrame ==
    [][ (pc = "setup" /\ call'.op = "register_path") =>
          LET p == call'.path
              m == server.path_handler_map
              m2 == server'.path_handler_map
          IN /\ (result'.st = "err") <=> (p \in DOMAIN m)
             /\ result'.st \in {"ok", "err"}
             /\ result'.st = "err" => IsDuplicatePath(result'.err) /\ server' = server
             /\ result'.st = "ok" =>
                   /\ DOMAIN m2 = (DOMAIN m) \cup {p}
                   /\ m2[p] = call'.func
             /\ \A q \in DOMAIN m : q \in DOMAIN m2 /\ m2[q] = m[q]
             /\ server'.name = server.name
             /\ server'.addr = server.addr
             /\ server'.port = server.port ]_vars

\* a second registration of a path with another handler has been refused and
\* the first handler is still the entry
C4_Witness ==
    /\ call.op = "register_path"
    /\ result.st = "err"
    /\ call.path \in DOMAIN server.path_handler_map
    /\ server.path_handler_map[call.path] # call.func
    /\ Cardinality(DOMAIN server.path_handler_map) = 2

(* C5 *)
\* C5: RestServer::new fails with InvalidConfig if and only if the name is
\* empty; otherwise it returns a server holding the given name, address and
\* port and an empty registry.
C5_NewChecksName ==
    call.op = "new" =>
        /\ result.st \in {"ok", "err"}
        /\ (result.st = "err") <=> (call.name = "")
        /\ result.st = "err" => IsInvalidConfig(result.err) /\ pc = "init"
        /\ result.st = "ok" =>
              /\ pc = "setup"
              /\ server = [name |-> call.name, addr |-> call.addr,
                           port |-> call.port, path_handler_map |-> <<>>]
              /\ DOMAIN server.path_handler_map = {}

C5_Witness ==
    /\ call.op = "new"
    /\ result.st = "ok"
    /\ server.name = "s"
    /\ server.addr = "0.0.0.0"
    /\ server.port = 65535

(* C6 *)
\* C6: when the first line passes the grammar, method and protocol checks with
\* path token p, the handler invoked is the one registered under exactly p;
\* when no key of the registry equals p, handling fails with NotFound, no
\* handler is invoked and nothing is written.
C6_ExactPathLookup ==
    (/\ Parsed
     /\ PassesGrammar
     /\ Tokens.method \in {"GET", "POST"}
     /\ Contains(Tokens.protocol, "HTTP")) =>
        LET p == Tokens.path
            m == server.path_handler_map
        IN IF p \in DOMAIN m
           THEN /\ hc_result.at \notin {"empty", "grammar", "groups", "method", "protocol", "lookup"}
                /\ pc = "dispatch" => invoked = <<>>
                /\ pc # "dispatch" => invoked = <<m[p]>>
                /\ req.path = p
           ELSE /\ pc = "accepting"
                /\ hc_result.st = "err"
                /\ hc_result.at = "lookup"
                /\ IsNotFound(hc_result.err)
                /\ hc_result.err.msg = "HTTP request is invalid: No handler found for path " \o p
                /\ NothingSent

\* "/ping" is registered and the request asks for "/ping/": NotFound
C6_Witness ==
    /\ Handled
    /\ hc_result.at = "lookup"
    /\ FirstLine = "GET /ping/ HTTP/1.1"
    /\ DOMAIN server.path_handler_map = {"/ping"}

(* C7 *)
\* C7: a first line that matches the grammar with the method token OPTION, PUT
\* or DELETE fails with InvalidRequest at the method check, with no handler
\* invoked and nothing written, also when its path is registered and its
\* protocol contains HTTP; only GET and POST get past the method check.
C7_MethodCheck ==
    (Parsed /\ PassesGrammar) =>
        /\ Tokens.method \in {"OPTION", "PUT", "DELETE"} =>
              /\ pc = "accepting"
              /\ hc_result.st = "err"
              /\ hc_result.at = "method"
              /\ IsInvalidRequest(hc_result.err)
              /\ hc_result.err.msg = "HTTP request is invalid: unexpected method: " \o Tokens.method
              /\ NothingSent
        /\ (pc # "accepting" \/ hc_result.at \in {"protocol", "lookup", "write"} \/ hc_result.st = "ok") =>
              /\ Tokens.method \in {"GET", "POST"}
              /\ hc_result.at \in {"protocol"} \/ req.method = Tokens.method

\* DELETE on a registered path with an HTTP protocol was refused
C7_Witness ==
    /\ Handled
    /\ hc_result.at = "method"
    /\ FirstLine = "DELETE /ping HTTP/1.1"
    /\ "/ping" \in DOMAIN server.path_handler_map

(* C8 *)
\* C8: whenever a handler was invoked, the response begins with the status
\* line "HTTP/1.1 200 OK" and ends with \r\n\r\n, whether the handler
\* succeeded or failed, and handle_connection succeeds after the write
\* whatever the handler returned: it fails only when the write itself fails.
C8_Always200 ==
    (invoked # <<>> /\ pc \in {"writing", "accepting"}) =>
        /\ HasPrefixAt(response, 1, "HTTP/1.1 200 OK\n")
        /\ EndsWith(response, "\r\n\r\n")
        /\ Len(response) >= Len("HTTP/1.1 200 OK\n") + Len("\r\n\r\n")
        /\ resp.st \in {"ok", "err"}
        /\ pc = "writing" => written = "" /\ hc_result.st = "none"
        /\ pc = "accepting" =>
              /\ writes = 1
              /\ hc_result.st \in {"ok", "err"}
              /\ hc_result.st = "ok" => written = response
              /\ hc_result.st = "err" =>
                    /\ hc_result.at = "write"
                    /\ Len(written) < Len(response)
                    /\ HasPrefixAt(response, 1, written)

\* the handler failed, and the connection succeeded with a 200 response
C8_Witness ==
    /\ Handled
    /\ resp.st = "err"
    /\ hc_result.st = "ok"
    /\ written = "HTTP/1.1 200 OK\nerror: handler failed\r\n\r\n"

(* C9 *)
\* C9: a stream that yields no line before its first empty line or its end
\* fails with InvalidRequest before the grammar is applied, with no handler
\* invoked and nothing written.
C9_EmptyRequest ==
    (/\ Parsed
     /\ \/ stream.data = "" /\ stream.ending = "eof"
        \/ HasPrefixAt(stream.data, 1, "\n")
        \/ HasPrefixAt(stream.data, 1, "\r\n")) =>
        /\ lines = <<>>
        /\ pc = "accepting"
        /\ hc_result.st = "err"
        /\ hc_result.at = "empty"
        /\ IsInvalidRequest(hc_result.err)
        /\ NothingSent

\* an empty first line followed by a well-formed request line
C9_Witness ==
    /\ Handled
    /\ hc_result.at = "empty"
    /\ stream.data = "\r\nGET /ping HTTP/1.1\r\n\r\n"
    /\ "/ping" \in DOMAIN server.path_handler_map

(* C10 *)
\* C10: listen() returns only when the bind fails, with the bind's error and
\* without any connection accepted; once bound to the configured
\* address:port it never returns, whatever the connections and accept
\* errors that follow.
C10_ListenReturnsOnlyOnBindFailure ==
    /\ (call.op = "listen" /\ result.st # "none") =>
          /\ result.st = "err"
          /\ result.at = "bind"
          /\ result.err.kind \in BindFaults
          /\ bound = ""
          /\ incoming = 0
          /\ accepted = 0
          /\ pc = "setup"
    /\ bound # "" =>
          /\ call.op = "listen"
          /\ result.st = "none"
          /\ bound = server.addr \o ":" \o ToString(server.port)
          /\ pc \notin {"init", "setup"}
    /\ bound = "" => incoming = 0 /\ accepted = 0

\* bound, after an accept error and a failed connection: still in the loop
C10_Witness ==
    /\ bound = "127.0.0.1:8080"
    /\ pc = "accepting"
    /\ incoming = 2
    /\ accepted = 1
    /\ hc_result.st = "err"
    /\ Len(log) = 2

(* C11 *)
\* the first line passes the grammar, method and protocol checks and its
\* path is a key of the registry
Dispatchable ==
    /\ PassesGrammar
    /\ Tokens.method \in {"GET", "POST"}
    /\ Contains(Tokens.protocol, "HTTP")
    /\ Tokens.path \in DOMAIN server.path_handler_map

\* C11: one exchange per connection: at most one handler call and at most one
\* write_all, the write only after the handler call, a write exactly when
\* the first line passed the grammar, method and protocol checks and its
\* path is registered, and not a byte sent on a failure before dispatch.
C11_OneExchange ==
    /\ Len(invoked) <= 1
    /\ writes <= 1
    /\ writes = 1 => Len(invoked) = 1 /\ pc = "accepting"
    /\ written # "" => writes = 1
    /\ pc \in {"reading", "parsing", "dispatch", "panicked"} => written = "" /\ writes = 0
    /\ pc \in {"reading", "parsing", "panicked"} => invoked = <<>>
    /\ Handled =>
          /\ (writes = 1) <=> Dispatchable
          /\ (invoked # <<>>) <=> Dispatchable
          /\ ~Dispatchable => hc_result.st = "err" /\ NothingSent
          /\ (Dispatchable /\ hc_result.st = "ok") => written = response /\ response # ""

\* a dispatched request, answered by one handler call and one write
C11_Witness ==
    /\ Handled
    /\ Dispatchable
    /\ Len(invoked) = 1
    /\ writes = 1
    /\ hc_result.st = "ok"
    /\ written = "HTTP/1.1 200 OK\nAny { .. }\r\n\r\n"

(* C12 *)
\* the first line of the text the client sent
SentFirst == NextItem([stream EXCEPT !.pos = 0])

\* lines a client may send between the first line and the empty line
OtherHeaders ==
    { <<>>, <<"Host: a">>, <<"DELETE /ping FTP">>, <<"GET /ping/ HTTP/1.1", "x">> }

\* C12: the outcome of a connection depends only on the first line and the
\* registry: whatever lines follow the first one before the empty line, and
\* whatever bytes follow the empty line, the same error is returned, or the
\* same handler is invoked with the same request (no headers, the
\* placeholder body) and the same response is built.
C12_FirstLineDecides ==
    (Handled /\ SentFirst.t = "line" /\ SentFirst.s # "") =>
        \A hs \in OtherHeaders :
            LET p == ParseRequest(<<SentFirst.s>> \o hs, server.path_handler_map)
            IN /\ p.res.st = "err" => hc_result = p.res /\ NothingSent
               /\ p.res.st = "ok" =>
                     LET h == server.path_handler_map[p.req.path]
                     IN /\ req = p.req
                        /\ req.headers = <<>>
                        /\ req.body = "todo"
                        /\ invoked = <<h>>
                        /\ resp = HandlerCall(h, p.req)
                        /\ response = "HTTP/1.1 200 OK\n" \o RespStr(resp) \o "\r\n\r\n"
                        /\ hc_result.st = "ok" => written = response

\* a request line followed by a line that alone would be refused, and served
C12_Witness ==
    /\ Handled
    /\ lines = <<"GET /ping HTTP/1.1", "DELETE /ping FTP">>
    /\ hc_result.st = "ok"
    /\ invoked # <<>>

(* C13 *)
\* C13: connections are handled one at a time in accept order: a stream is
\* accepted only from the loop's accept point, after handle_connection has
\* returned for the one before; a line is printed or a response written
\* only for the connection in hand, and a connection that has returned is
\* never touched again, so logs and responses come in accept order.
C13_OneAtATime ==
    [][ /\ accepted' # accepted =>
              /\ accepted' = accepted + 1
              /\ pc = "accepting"
              /\ pc' = "reading"
              /\ accepted > 0 => hc_result.st \in {"ok", "err"}
              /\ hc_result'.st = "none"
              /\ written' = ""
              /\ log' = log
        /\ log' # log =>
              /\ Len(log') = Len(log) + 1
              /\ SubSeq(log', 1, Len(log)) = log
              /\ pc' = "accepting"
              /\ accepted' = accepted
              /\ \/ /\ pc = "accepting"
                    /\ incoming' = incoming + 1
                    /\ UNCHANGED connVars
                 \/ /\ pc \in {"parsing", "writing"}
                    /\ incoming' = incoming
                    /\ hc_result.st = "none"
                    /\ hc_result'.st = "err"
                    /\ log'[Len(log')] =
                          "Error in handling connection: " \o hc_result'.err.msg
        /\ (written' # written /\ accepted' = accepted) =>
              /\ pc = "writing"
              /\ pc' = "accepting"
              /\ hc_result.st = "none"
        /\ (hc_result.st # "none" /\ accepted' = accepted) => UNCHANGED connVars
      ]_vars

\* the first connection failed and was logged, the second was then served
C13_Witness ==
    /\ Handled
    /\ accepted = 2
    /\ Len(log) = 1
    /\ hc_result.st = "ok"
    /\ written # ""

(* C14 *)
\* what lines().map(unwrap).take_while(non-empty).collect() yields on a stream
\* read from its start
RECURSIVE Collect(_, _)
Collect(st, acc) ==
    LET item == NextItem(st)
    IN IF item.t = "line" /\ item.s # ""
       THEN Collect([st EXCEPT !.pos = item.pos], Append(acc, item.s))
       ELSE [lines |-> acc, t |-> item.t]

\* C14: while listen() runs, the registry and the configuration never change,
\* and the result of handling a connection is a function of its stream and
\* the registry alone, whatever connections were handled before it.
C14_RegistryFrozen ==
    /\ [][bound # "" => server' = server /\ bound' = bound]_vars
    /\ [](Handled =>
            LET c == Collect([stream EXCEPT !.pos = 0], <<>>)
                p == ParseRequest(c.lines, server.path_handler_map)
            IN /\ c.t \in {"line", "end"}
               /\ lines = c.lines
               /\ req = p.req
               /\ p.res.st = "err" => hc_result = p.res /\ NothingSent
               /\ p.res.st = "ok" =>
                     LET h == server.path_handler_map[p.req.path]
                     IN /\ invoked = <<h>>
                        /\ resp = HandlerCall(h, p.req)
                        /\ response = "HTTP/1.1 200 OK\n" \o RespStr(resp) \o "\r\n\r\n"
                        /\ hc_result.at \in {"none", "write"}
                        /\ hc_result.st = "ok" => written = response)

\* the same request served after a connection that failed
C14_Witness ==
    /\ Handled
    /\ accepted = 2
    /\ Len(log) = 1
    /\ lines = <<"POST /ping HTTP/1.1">>
    /\ Cardinality(DOMAIN server.path_handler_map) = 2
    /\ resp.st = "ok"
    /\ resp.payload = "[POST]"

(* C15 *)
NoSpaceIn(t) == \A i \in 1..Len(t) : ~IsSpace(Char(t, i))

\* the ways to read a line as METHOD, one space, PATH, one space, PROTOCOL
FormsOf(line) ==
    { f \in [method : {"GET", "POST", "OPTION", "PUT", "DELETE"},
             a : 1..Len(line), b : 1..Len(line)] :
        /\ f.a = Len(f.method) + 1
        /\ f.a + 1 < f.b
        /\ f.b < Len(line)
        /\ Take(line, f.a - 1) = f.method
        /\ Char(line, f.a) = " "
        /\ Char(line, f.b) = " "
        /\ Char(line, f.a + 1) = "/"
        /\ NoSpaceIn(SubSeq(line, f.a + 1, f.b - 1))
        /\ NoSpaceIn(SubSeq(line, f.b + 1, Len(line))) }

\* C15: the first line passes the grammar stage only if it is of the form
\* METHOD, one space, PATH, one space, PROTOCOL, and then the method, path
\* and protocol used downstream are those three tokens of the line; any
\* other first line fails with InvalidRequest.
C15_GrammarIsTheLineForm ==
    (Parsed /\ lines # <<>>) =>
        /\ FormsOf(FirstLine) = {} =>
              /\ pc = "accepting"
              /\ hc_result.st = "err"
              /\ hc_result.at = "grammar"
              /\ IsInvalidRequest(hc_result.err)
              /\ NothingSent
        /\ hc_result.at # "grammar" =>
              \E f \in FormsOf(FirstLine) :
                  /\ Tokens.method = f.method
                  /\ Tokens.path = SubSeq(FirstLine, f.a + 1, f.b - 1)
                  /\ Tokens.protocol = SubSeq(FirstLine, f.b + 1, Len(FirstLine))
                  /\ req # NoReq => req.method = f.method /\ req.path = Tokens.path

(* C16 *)
\* C16: a protocol token without "HTTP" fails with InvalidRequest before the
\* registry is looked at, also for GET or POST on a registered path; the
\* checks come in the order grammar, method, protocol, lookup, so a refused
\* method wins over a non-HTTP protocol, and a non-HTTP protocol over an
\* unregistered path.
C16_ProtocolBeforeLookup ==
    (Parsed /\ PassesGrammar) =>
        /\ Tokens.method \notin {"GET", "POST"} =>
              /\ hc_result.st = "err"
              /\ hc_result.at = "method"
              /\ hc_result.err.msg = "HTTP request is invalid: unexpected method: " \o Tokens.method
        /\ (Tokens.method \in {"GET", "POST"} /\ ~Contains(Tokens.protocol, "HTTP")) =>
              /\ pc = "accepting"
              /\ hc_result.st = "err"
              /\ hc_result.at = "protocol"
              /\ IsInvalidRequest(hc_result.err)
              /\ HasPrefixAt(hc_result.err.msg, 1,
                     "HTTP request is invalid: expected protocol to be HTTP but got "
                         \o Tokens.protocol)
              /\ req = NoReq
              /\ NothingSent
        /\ hc_result.at = "lookup" =>
              /\ Tokens.method \in {"GET", "POST"}
              /\ Contains(Tokens.protocol, "HTTP")

\* GET with a non-HTTP protocol on a path that is not registered
C16_Witness ==
    /\ Handled
    /\ hc_result.at = "protocol"
    /\ FirstLine = "GET /missing FTP"
    /\ "/ping" \in DOMAIN server.path_handler_map

(* C17 *)
HasEmptyLine(t) ==
    \/ HasPrefixAt(t, 1, "\n")
    \/ HasPrefixAt(t, 1, "\r\n")
    \/ Contains(t, "\n\n")
    \/ Contains(t, "\n\r\n")

\* the client sends an empty line or closes its stream, so that no read fails
Cooperative(st) == HasEmptyLine(st.data) \/ st.ending = "eof"

\* the client has sent an empty line, or has closed its stream and all of it
\* was read
ClientDone ==
    \/ HasEmptyLine(Take(stream.data, stream.pos))
    \/ stream.ending = "eof" /\ stream.pos = Len(stream.data)

\* C17: with clients that send an empty line or close their stream, every
\* handling completes and every connection offered is accepted and handled;
\* and there is no timeout: handling goes past the read, and so a later
\* connection is accepted, only once the current client has sent an empty
\* line or closed its stream.
C17_LoopProgress ==
    /\ []((accepted > 0 /\ pc \in {"parsing", "dispatch", "writing", "accepting"})
             => ClientDone)
    /\ [][(accepted' # accepted /\ accepted > 0) => ClientDone]_vars
    /\ (pc = "reading" /\ Cooperative(stream))
          ~> (pc = "accepting" /\ hc_result.st \in {"ok", "err"})
    /\ [](pc = "reading" => Cooperative(stream))
          => ((bound # "") ~> (pc = "accepting" /\ incoming = MaxIncoming))

\* a client that sent its request and the empty line and keeps the stream
\* open was served, after another connection
C17_Witness ==
    /\ Handled
    /\ accepted = 2
    /\ stream.ending = "stall"
    /\ stream.data = "GET /ping HTTP/1.1\r\n\r\n"
    /\ hc_result.st = "ok"

====
